---- MODULE Spec2Model ----
(***************************************************************************)
(* load_data and shuffle_in_unison of the stock prediction script          *)
(* (src/unnamed/part_000): the sliding-window dataset construction, the    *)
(* train/test split and the co-shuffle, as a state machine whose steps are *)
(* the consecutive blocks of load_data.                                    *)
(***************************************************************************)
EXTENDS Integers, Sequences, FiniteSets, TLC

(***************************************************************************)
(* Python floats.  test_size is a Python float (an IEEE-754 double) and    *)
(* the split sizes are int((1 - test_size) * len(X)) and, in sklearn,      *)
(* ceil(test_size * n_samples).  A double is [m, e] with value m * 2^e,    *)
(* m a natural number of at most MantissaBits bits; every operation rounds *)
(* to nearest, ties to even.                                               *)
(***************************************************************************)
MantissaBits == 53

\* a natural number is a little-endian sequence of limbs below 2^LimbBits
\* with a non-zero top limb; <<>> is 0
LimbBits == 15
LimbBase == 2^LimbBits

RECURSIVE BigOfNat(_)
BigOfNat(n) == IF n = 0 THEN <<>> ELSE <<n % LimbBase>> \o BigOfNat(n \div LimbBase)

RECURSIVE NatOfBig(_)
NatOfBig(x) == IF x = <<>> THEN 0 ELSE Head(x) + LimbBase * NatOfBig(Tail(x))

RECURSIVE Trim(_)
\* drop the zero limbs above the highest non-zero one
Trim(x) ==
    IF x = <<>> THEN <<>>
    ELSE IF x[Len(x)] = 0 THEN Trim(SubSeq(x, 1, Len(x) - 1))
    ELSE x

RECURSIVE MulSmall(_, _, _)
\* x * n + carry
MulSmall(x, n, carry) ==
    IF x = <<>>
    THEN BigOfNat(carry)
    ELSE LET t == Head(x) * n + carry
         IN  <<t % LimbBase>> \o MulSmall(Tail(x), n, t \div LimbBase)

RECURSIVE DivSmall(_, _)
\* quotient (untrimmed) and remainder of x by the small divisor d
DivSmall(x, d) ==
    IF x = <<>> THEN [q |-> <<>>, r |-> 0]
    ELSE LET hi == DivSmall(Tail(x), d)
             t  == LimbBase * hi.r + Head(x)
         IN  [q |-> <<t \div d>> \o hi.q, r |-> t % d]

RECURSIVE SubBig(_, _, _)
\* a - b - borrow for a >= b + borrow, on Len(a) limbs (untrimmed)
SubBig(a, b, borrow) ==
    IF a = <<>> THEN <<>>
    ELSE LET bb == IF b = <<>> THEN 0 ELSE Head(b)
             t  == Head(a) - bb - borrow
         IN  <<(t + LimbBase) % LimbBase>>
             \o SubBig(Tail(a), IF b = <<>> THEN <<>> ELSE Tail(b),
                       IF t < 0 THEN 1 ELSE 0)

RECURSIVE IncBig(_)
IncBig(x) ==
    IF x = <<>> THEN <<1>>
    ELSE IF Head(x) + 1 < LimbBase THEN <<Head(x) + 1>> \o Tail(x)
    ELSE <<0>> \o IncBig(Tail(x))

\* 2^k
Pow2Big(k) ==
    [i \in 1..(k \div LimbBits + 1) |->
        IF i = k \div LimbBits + 1 THEN 2^(k % LimbBits) ELSE 0]

\* the number of bits of x
BitLen(x) ==
    IF x = <<>> THEN 0
    ELSE LimbBits * (Len(x) - 1)
         + (CHOOSE b \in 1..LimbBits : 2^(b - 1) <= x[Len(x)] /\ x[Len(x)] < 2^b)

\* bit i of x, bit 0 the lowest
Bit(x, i) ==
    IF i \div LimbBits + 1 > Len(x) THEN 0
    ELSE (x[i \div LimbBits + 1] \div 2^(i % LimbBits)) % 2

\* the limb of x \div 2^r that starts at limb a of x (0 <= r < LimbBits)
ShiftedLimb(x, a, r) ==
    (x[a] \div 2^r)
    + (IF a + 1 <= Len(x) THEN (x[a + 1] % 2^r) * 2^(LimbBits - r) ELSE 0)

\* the first n limbs of x \div 2^s
ShiftedLimbs(x, s, n) ==
    [j \in 1..n |-> ShiftedLimb(x, (s \div LimbBits) + j, s % LimbBits)]

\* the number of limbs for bits bits
LimbsFor(bits) == IF bits <= 0 THEN 0 ELSE (bits + LimbBits - 1) \div LimbBits

\* x \div 2^s
ShiftRight(x, s) == ShiftedLimbs(x, s, LimbsFor(BitLen(x) - s))

\* a mantissa that rounding up has carried to MantissaBits + 1 bits is
\* halved, the exponent raised
Renormalized(r, e) ==
    IF BitLen(r) > MantissaBits THEN [m |-> ShiftRight(r, 1), e |-> e + 1]
    ELSE [m |-> r, e |-> e]

\* round to nearest, ties to even: kept is x without its s low bits; it goes
\* up when the highest dropped bit is set and either a lower one is (or
\* `inexact`) or kept is odd
RoundedUp(x, s, kept, inexact) ==
    IF /\ Bit(x, s - 1) = 1
       /\ \/ inexact
          \/ \E i \in 0..(s - 2) : Bit(x, i) = 1
          \/ Bit(kept, 0) = 1
    THEN IncBig(kept)
    ELSE kept

\* x * 2^e with the s low bits of x rounded away
RoundAway(x, e, s, inexact) ==
    IF s <= 0 THEN [m |-> x, e |-> e]
    ELSE Renormalized(RoundedUp(x, s, ShiftRight(x, s), inexact), e + s)

\* the exact value x * 2^e (with `inexact` when lower bits of it were already
\* lost) rounded to a double
RoundDouble(x, e, inexact) == RoundAway(x, e, BitLen(x) - MantissaBits, inexact)

\* the double a decimal literal p/q (0.2 is 2/10) parses to
RoundQuotient(d, e) == RoundDouble(Trim(d.q), e, d.r # 0)

DoubleOfLiteral(p, q) ==
    RoundQuotient(DivSmall(<<0, 0, 0, 0, 0>> \o BigOfNat(p), q), 0 - 5 * LimbBits)

\* 1 - x for a double 0 < x < 1
OneMinus(x) ==
    RoundDouble(Trim(SubBig(Pow2Big(0 - x.e), x.m, 0)), x.e, FALSE)

\* x * n for a double x and a length n (an int, exactly a double)
TimesInt(x, n) ==
    IF n = 0 THEN [m |-> <<>>, e |-> 0]
    ELSE RoundDouble(MulSmall(x.m, n, 0), x.e, FALSE)

\* int(x) for a double x >= 0: truncation
IntOf(x) ==
    IF x.e >= 0 THEN NatOfBig(x.m) * 2^x.e
    ELSE NatOfBig(ShiftRight(x.m, 0 - x.e))

\* whether the double x >= 0 has a fractional part
HasFraction(x) == \E i \in 0..(0 - x.e - 1) : Bit(x.m, i) = 1

\* ceil(x) for a double x >= 0
CeilOf(x) == IF HasFraction(x) THEN IntOf(x) + 1 ELSE IntOf(x)

(***************************************************************************)
(* Tables.  A cell is a number num/den (den > 0) of kind "f64" (a float64  *)
(* column value), "f32" (after astype(np.float32)) or "ts" (a timestamp,   *)
(* num the day); NaN is the missing value.  A table (a DataFrame) has a    *)
(* set of columns and a sequence of rows, each an index label (a day) and  *)
(* a cell per column.                                                      *)
(***************************************************************************)
NaN == [num |-> 0, den |-> 0, kind |-> "f64"]

Float64(v) == [num |-> v, den |-> 1, kind |-> "f64"]

Timestamp(d) == [num |-> d, den |-> 1, kind |-> "ts"]

\* astype(np.float32) of one value: the same number rounded to single
\* precision, not computed here
AsFloat32(c) == [c EXCEPT !.kind = "f32"]

IsNaN(c) == c.den = 0

RECURSIVE GCD(_, _)
GCD(a, b) == IF b = 0 THEN a ELSE GCD(b, a % b)

\* num/den in lowest terms, den > 0
Reduced(n, d, g) == [num |-> n \div g, den |-> d \div g, kind |-> "f64"]

Fraction(n, d) == Reduced(n, d, GCD(IF n < 0 THEN 0 - n ELSE n, d))

Less(a, b) == a.num * b.den < b.num * a.den

\* df[column].values
Column(df, column) == [i \in 1..Len(df.rows) |-> df.rows[i].cells[column]]

\* df[column] = values
SetColumn(df, column, values) ==
    [columns |-> df.columns \cup {column},
     rows    |-> [i \in 1..Len(df.rows) |->
                    [index |-> df.rows[i].index,
                     cells |-> [c \in df.columns \cup {column} |->
                                  IF c = column THEN values[i]
                                  ELSE df.rows[i].cells[c]]]]]

\* the minimum and maximum over the positions known
FitKnown(values, known) ==
    IF known = {} THEN [data_min |-> NaN, data_max |-> NaN]
    ELSE [data_min |-> values[CHOOSE i \in known :
                                \A j \in known : ~Less(values[j], values[i])],
          data_max |-> values[CHOOSE i \in known :
                                \A j \in known : ~Less(values[i], values[j])]]

\* MinMaxScaler().fit(values): the minimum and maximum, NaN disregarded
\* (both NaN when every value is NaN)
Fit(values) == FitKnown(values, {i \in 1..Len(values) : ~IsNaN(values[i])})

\* xn / rn, or xn / cd when rn = 0
Ratio(xn, rn, cd) == IF rn = 0 THEN Fraction(xn, cd) ELSE Fraction(xn, rn)

\* (x - lo) / (hi - lo): x - lo and hi - lo are taken over the common
\* denominator of the three
Rescaled(x, lo, hi) ==
    Ratio((x.num * lo.den - lo.num * x.den) * hi.den,
          (hi.num * lo.den - lo.num * hi.den) * x.den,
          x.den * lo.den * hi.den)

\* scaler.transform of one value: (x - data_min) / (data_max - data_min),
\* a zero range counting as 1; NaN stays NaN
Transform(scaler, x) ==
    IF IsNaN(x) \/ IsNaN(scaler.data_min) THEN NaN
    ELSE Rescaled(x, scaler.data_min, scaler.data_max)

\* the values of a column transformed by its scaler
TransformAll(scaler, values) ==
    [i \in 1..Len(values) |-> Transform(scaler, values[i])]

\* line 47 with the fitted scaler, and line 48
Overwrite(prev, column, scaler) ==
    [df |-> SetColumn(prev.df, column, TransformAll(scaler, Column(prev.df, column))),
     column_scaler |-> (column :> scaler) @@ prev.column_scaler]

\* lines 46-48 for one column, from the table and the scalers so far
ScaleColumn(prev, column) == Overwrite(prev, column, Fit(Column(prev.df, column)))

RECURSIVE ScaleColumns(_, _, _)
\* lines 44-49 for the first k feature columns: each column is overwritten
\* by its scaled values and its scaler kept
ScaleColumns(df, feature_columns, k) ==
    IF k = 0 THEN [df |-> df, column_scaler |-> <<>>]
    ELSE ScaleColumn(ScaleColumns(df, feature_columns, k - 1), feature_columns[k])

\* df['adjclose'].shift(-lookup_step)
Shift(values, lookup_step) ==
    [i \in 1..Len(values) |->
        IF i + lookup_step <= Len(values) THEN values[i + lookup_step] ELSE NaN]

\* df[feature_columns].values of the rows
FeatureRows(df, feature_columns) ==
    [i \in 1..Len(df.rows) |->
        [j \in 1..Len(feature_columns) |-> df.rows[i].cells[feature_columns[j]]]]

\* s.tail(n)
TailOf(s, n) ==
    IF n >= Len(s) THEN s ELSE SubSeq(s, Len(s) - n + 1, Len(s))

\* the rows dropna() keeps: those with no missing value in any column
Retained(df) ==
    {i \in 1..Len(df.rows) : \A c \in df.columns : ~IsNaN(df.rows[i].cells[c])}

RECURSIVE SelectRows(_, _, _, _)
\* the rows lo..hi restricted to those in keep, in order (by halves)
SelectRows(rows, keep, lo, hi) ==
    IF lo > hi THEN <<>>
    ELSE IF lo = hi THEN (IF lo \in keep THEN <<rows[lo]>> ELSE <<>>)
    ELSE LET mid == (lo + hi) \div 2
         IN  SelectRows(rows, keep, lo, mid) \o SelectRows(rows, keep, mid + 1, hi)

\* df.dropna(inplace=True)
DropNa(df) ==
    [columns |-> df.columns, rows |-> SelectRows(df.rows, Retained(df), 1, Len(df.rows))]

(***************************************************************************)
(* The sliding window (lines 55-61).                                       *)
(***************************************************************************)
\* deque(maxlen=maxlen).append(x)
DequeAppend(d, x, maxlen) ==
    IF Len(d) = maxlen THEN Append(Tail(d), x) ELSE Append(d, x)

\* one row of df[feature_columns + ["date"]].values
Entry(row, feature_columns) ==
    [j \in 1..(Len(feature_columns) + 1) |->
        IF j <= Len(feature_columns) THEN row.cells[feature_columns[j]]
        ELSE row.cells["date"]]

\* the target of the window's first row instead of its last
FirstRowTarget(targets, k, n_steps) == targets[k - n_steps + 1]

\* the target paired with the window whose last row is row k
TargetOf(targets, k, n_steps) == targets[k]

\* lines 60-61 once the deque dq holds the row
Emit(sequence_data, dq, target, n_steps) ==
    [sequences     |-> dq,
     sequence_data |-> IF Len(dq) = n_steps
                       THEN Append(sequence_data, <<dq, target>>)
                       ELSE sequence_data]

\* one iteration of the loop of lines 58-61, on row k
WindowStep(st, entries, targets, n_steps, k) ==
    Emit(st.sequence_data, DequeAppend(st.sequences, entries[k], n_steps),
         TargetOf(targets, k, n_steps), n_steps)

RECURSIVE WindowLoop(_, _, _, _, _, _)
\* the iterations lo..hi of the loop from the deque and the list st (by
\* halves; the test on st only has the earlier iterations evaluated first):
\* the deque and the list of (window, target) pairs they leave
WindowLoop(st, entries, targets, n_steps, lo, hi) ==
    IF Len(st.sequences) < 0 \/ lo > hi THEN st
    ELSE IF lo = hi THEN WindowStep(st, entries, targets, n_steps, lo)
    ELSE WindowLoop(WindowLoop(st, entries, targets, n_steps, lo, (lo + hi) \div 2),
                    entries, targets, n_steps, (lo + hi) \div 2 + 1, hi)

\* np.array(rows).astype(np.float32)
CastRows(rows) ==
    [i \in 1..Len(rows) |-> [j \in 1..Len(rows[i]) |-> AsFloat32(rows[i][j])]]

\* lines 63-64: the deque's rows cut to the feature columns, then the tail
\* rows captured at line 52, cast to float32
LastSequence(sequences, tail, feature_columns) ==
    CastRows([i \in 1..Len(sequences) |-> SubSeq(sequences[i], 1, Len(feature_columns))]
             \o tail)

(***************************************************************************)
(* numpy's global generator.  Its state is one of RngStates values; a draw *)
(* returns a number fixed by the state and the interval and moves to the   *)
(* next state, so equal states give equal draws.                           *)
(***************************************************************************)
RngStates == 3

\* random_interval(i): a number in 0..i
RandomInterval(state, i) ==
    [value |-> state % (i + 1), state |-> (state + 1) % RngStates]

\* one iteration of np.random.shuffle's loop, at 0-based position i: x[i]
\* and x[j] change places for a drawn j in 0..i
Swapped(x, i, d) ==
    [x     |-> [x EXCEPT ![i + 1] = x[d.value + 1], ![d.value + 1] = x[i + 1]],
     state |-> d.state]

ShuffleStep(st, i) == Swapped(st.x, i, RandomInterval(st.state, i))

RECURSIVE ShuffleFrom(_, _, _)
\* the iterations at positions hi down to lo (by halves; the test on st
\* only has the earlier iterations evaluated first)
ShuffleFrom(st, hi, lo) ==
    IF st.state < 0 \/ hi < lo THEN st
    ELSE IF hi = lo THEN ShuffleStep(st, hi)
    ELSE ShuffleFrom(ShuffleFrom(st, hi, (lo + hi) \div 2 + 1), (lo + hi) \div 2, lo)

\* np.random.shuffle(x) from the generator state: the shuffled array and the
\* state left
Shuffle(x, state) == ShuffleFrom([x |-> x, state |-> state], Len(x) - 1, 1)

\* set_state left out: the second shuffle goes on from where the first ended
NotRestored(saved, after) == after

\* the generator state the second shuffle of shuffle_in_unison starts from:
\* the one saved by get_state and put back by set_state
RestoredState(saved, after) == saved

\* what shuffle_in_unison leaves: the two arrays and the generator state
Both(sa, sb) == [a |-> sa.x, b |-> sb.x, state |-> sb.state]

\* lines 22-23 after line 21
SecondShuffle(sa, b, saved) == Both(sa, Shuffle(b, RestoredState(saved, sa.state)))

\* shuffle_in_unison(a, b), lines 19-23
ShuffleInUnison(a, b, state) == SecondShuffle(Shuffle(a, state), b, state)

(***************************************************************************)
(* The split (lines 75-86).  test_size is the decimal literal p/q given    *)
(* as <<p, q>>.                                                            *)
(***************************************************************************)
\* int((1 - test_size) * len(X)), line 76
TrainSamples(test_size, n) ==
    IntOf(TimesInt(OneMinus(DoubleOfLiteral(test_size[1], test_size[2])), n))

\* lines 77-80: the two parts of an array
TrainPart(a, train_samples) == SubSeq(a, 1, train_samples)

\* the test part cut from the front of the array
HeadPart(a, train_samples) == SubSeq(a, 1, Len(a) - train_samples)

TestPart(a, train_samples) == SubSeq(a, train_samples + 1, Len(a))

\* the four parts once shuffled
Parts(tr, te) ==
    [X_train |-> tr.a, y_train |-> tr.b, X_test |-> te.a, y_test |-> te.b,
     state |-> te.state]

\* line 83, after line 82
ShuffleTest(tr, X_test, y_test) == Parts(tr, ShuffleInUnison(X_test, y_test, tr.state))

\* lines 81-83 on the four parts
ShuffleParts(X_train, y_train, X_test, y_test, shuffle, state) ==
    IF shuffle
    THEN ShuffleTest(ShuffleInUnison(X_train, y_train, state), X_test, y_test)
    ELSE [X_train |-> X_train, y_train |-> y_train, X_test |-> X_test,
          y_test |-> y_test, state |-> state]

\* lines 77-83
SplitAt(X, y, train_samples, shuffle, state) ==
    ShuffleParts(TrainPart(X, train_samples), TrainPart(y, train_samples),
                 TestPart(X, train_samples), TestPart(y, train_samples),
                 shuffle, state)

\* lines 76-83
SplitByDate(X, y, test_size, shuffle, state) ==
    SplitAt(X, y, TrainSamples(test_size, Len(X)), shuffle, state)

\* sklearn's sizes for a float test_size: n_test = ceil(test_size * n) and
\* n_train = n - n_test
NTest(test_size, n) ==
    CeilOf(TimesInt(DoubleOfLiteral(test_size[1], test_size[2]), n))

\* a[indices]
Take(a, indices) == [i \in 1..Len(indices) |-> a[indices[i]]]

\* the parts of X and y at the train and the test indices
Indexed(X, y, train, test, state) ==
    [raised  |-> FALSE,
     X_train |-> Take(X, train), y_train |-> Take(y, train),
     X_test  |-> Take(X, test), y_test |-> Take(y, test),
     state   |-> state]

\* ShuffleSplit: the first n_test of a permutation are the test rows, the
\* rest the train rows
Permuted(X, y, n_test, perm) ==
    Indexed(X, y, SubSeq(perm.x, n_test + 1, Len(X)), SubSeq(perm.x, 1, n_test),
            perm.state)

\* the split with n_train and n_test known: ValueError when the train set
\* would be empty; without shuffle the train rows come first
SplitSizes(X, y, n_train, n_test, shuffle, state) ==
    IF n_train = 0 THEN [raised |-> TRUE]
    ELSE IF shuffle THEN Permuted(X, y, n_test, Shuffle([i \in 1..Len(X) |-> i], state))
    ELSE Indexed(X, y, [i \in 1..n_train |-> i], [i \in 1..n_test |-> n_train + i],
                 state)

\* n_train = n_samples - n_test
SplitTest(X, y, n_test, shuffle, state) ==
    SplitSizes(X, y, Len(X) - n_test, n_test, shuffle, state)

\* train_test_split(X, y, test_size=test_size, shuffle=shuffle), lines 85-86
TrainTestSplit(X, y, test_size, shuffle, state) ==
    SplitTest(X, y, NTest(test_size, Len(X)), shuffle, state)

(***************************************************************************)
(* The end of load_data (lines 88-92).                                     *)
(***************************************************************************)
\* X_test[:, -1, -1]: the last column of each window's last row
AnchorDates(X) == [i \in 1..Len(X) |-> X[i][Len(X[i])][Len(X[i][Len(X[i])])]]

RECURSIVE Lookup(_, _, _, _)
\* df.loc[dates] for the dates lo..hi: for each date in turn, the rows
\* labelled with it (by halves)
Lookup(df, dates, lo, hi) ==
    IF lo > hi THEN <<>>
    ELSE IF lo = hi
    THEN SelectRows(df.rows,
                    {i \in 1..Len(df.rows) : df.rows[i].index = dates[lo].num},
                    1, Len(df.rows))
    ELSE LET mid == (lo + hi) \div 2
         IN  Lookup(df, dates, lo, mid) \o Lookup(df, dates, mid + 1, hi)

\* rows[~index.duplicated(keep='first')]: the rows without those whose label
\* an earlier row has
FirstOccurrences(rows) ==
    SelectRows(rows,
               {k \in 1..Len(rows) : \A j \in 1..(k - 1) : rows[j].index # rows[k].index},
               1, Len(rows))

\* lines 88-90
TestDf(df, X_test) ==
    [columns |-> df.columns,
     rows    |-> FirstOccurrences(Lookup(df, AnchorDates(X_test), 1, Len(X_test)))]

\* X[:, :, :len(feature_columns)].astype(np.float32), lines 91-92
Truncate(X, n_features) ==
    [i \in 1..Len(X) |->
        [r \in 1..Len(X[i]) |->
            [j \in 1..n_features |-> AsFloat32(X[i][r][j])]]]

(***************************************************************************)
(* The inputs: the tables a caller passes (or the data source returns) and *)
(* the configurations of a call.                                           *)
(***************************************************************************)
MaxRows == 6
MaxCalls == 2

Price(i) == 10 + ((3 * i) % 101)

Volume(i) == 500 + ((7 * i) % 101)

\* a table of n daily rows with columns adjclose and volume, labelled by day
\* in ascending or descending order, with one missing value at row nanRow of
\* column nanCol (none when nanRow = 0)
MakeTable(n, nanRow, nanCol, order) ==
    [columns |-> {"adjclose", "volume"},
     rows    |-> [i \in 1..n |->
                    [index |-> IF order = "asc" THEN i ELSE n + 1 - i,
                     cells |-> [c \in {"adjclose", "volume"} |->
                                  IF i = nanRow /\ c = nanCol THEN NaN
                                  ELSE IF c = "adjclose" THEN Float64(Price(i))
                                  ELSE Float64(Volume(i))]]]]

NoTable == [columns |-> {}, rows |-> <<>>]

\* test_size literals: 0.2 (the default) and 0.5
TestSizes == {<<2, 10>>, <<5, 10>>}

FeatureColumnSets ==
    {<<"adjclose", "volume">>, <<"adjclose">>}

MissingColumnSets ==
    {<<"adjclose", "not_a_real_column">>, <<"open", "adjclose", "high">>}

Configs(n_steps_set, lookup_set, columns_set, sizes) ==
    [n_steps : n_steps_set, lookup_step : lookup_set, scale : BOOLEAN,
     shuffle : BOOLEAN, split_by_date : BOOLEAN, test_size : sizes,
     feature_columns : columns_set]

VARIABLES
    ticker,         \* the kind of the ticker argument: "DataFrame", "str" or "int"
    df,             \* the table df refers to: the caller's own when ticker is a table
    original,       \* the caller's table (or the data source's) before the first call
    cfg,            \* the keyword arguments of the call
    pc,             \* where the call stands
    error,          \* the exception raised, if any
    result,         \* the result dictionary
    last_sequence,
    sequences,      \* the deque
    sequence_data,  \* the list of [window, target] pairs
    X, y,           \* the arrays of lines 72-73
    rng,            \* the state of numpy's global generator
    calls           \* the number of calls made

vars == <<ticker, df, original, cfg, pc, error, result, last_sequence, sequences,
          sequence_data, X, y, rng, calls>>

NoError == [type |-> "none", line |-> 0, arg |-> ""]

Start(t, table, config, state) ==
    /\ ticker = t
    /\ df = table
    /\ original = table
    /\ cfg = config
    /\ rng = state
    /\ pc = "start"
    /\ error = NoError
    /\ result = <<>>
    /\ last_sequence = <<>>
    /\ sequences = <<>>
    /\ sequence_data = <<>>
    /\ X = <<>>
    /\ y = <<>>
    /\ calls = 1

\* a caller's table, with or without a missing value, in ascending order
InitTable ==
    \E n \in 0..MaxRows, nanRow \in 0..MaxRows, nanCol \in {"adjclose", "volume"} :
    \E config \in Configs(1..2, 1..2, FeatureColumnSets, TestSizes) :
    \E state \in 0..(RngStates - 1) :
        /\ nanRow <= n
        /\ nanRow = 0 => nanCol = "adjclose"
        /\ Start("DataFrame", MakeTable(n, nanRow, nanCol, "asc"), config, state)

\* a caller's table in descending order
InitDescending ==
    \E n \in 2..MaxRows :
    \E config \in Configs({1}, {1}, {<<"adjclose", "volume">>}, TestSizes) :
        Start("DataFrame", MakeTable(n, 0, "adjclose", "desc"), config, 0)

\* a ticker symbol: the table comes from the data source
InitSymbol ==
    \E n \in 0..MaxRows :
    \E config \in Configs({2}, {1}, {<<"adjclose", "volume">>}, {<<2, 10>>}) :
        Start("str", MakeTable(n, 0, "adjclose", "asc"), config, 0)

\* a ticker that is neither
InitOther ==
    \E config \in Configs({2}, {1}, {<<"adjclose", "volume">>}, {<<2, 10>>}) :
        Start("int", NoTable, config, 0)

\* feature columns the table lacks
InitMissing ==
    \E n \in {0, 3}, nanRow \in {0, 1}, t \in {"DataFrame", "str"} :
    \E config \in Configs({2}, {1}, MissingColumnSets, {<<2, 10>>}) :
        /\ nanRow <= n
        /\ Start(t, MakeTable(n, nanRow, "volume", "asc"), config, 0)

\* the 100-row table of daily rows
InitHundred ==
    \E config \in Configs({5}, {1}, {<<"adjclose", "volume">>}, {<<2, 10>>}) :
    \E state \in 0..(RngStates - 1) :
        Start("DataFrame", MakeTable(100, 0, "adjclose", "asc"), config, state)

\* test_size = 0.9 on a table that gives ten windows
InitNine ==
    \E config \in Configs({1}, {1}, {<<"adjclose">>}, {<<9, 10>>}) :
        Start("DataFrame", MakeTable(11, 0, "adjclose", "asc"), config, 0)

Init ==
    \/ InitTable
    \/ InitDescending
    \/ InitSymbol
    \/ InitOther
    \/ InitMissing
    \/ InitHundred
    \/ InitNine

(***************************************************************************)
(* load_data, block by block.                                              *)
(***************************************************************************)
Raise(type, line, arg) ==
    /\ pc' = "raised"
    /\ error' = [type |-> type, line |-> line, arg |-> arg]

\* the last missing name instead of the first
LastMissingColumn(feature_columns, columns) ==
    IF \A j \in 1..Len(feature_columns) : feature_columns[j] \in columns THEN ""
    ELSE feature_columns[CHOOSE j \in 1..Len(feature_columns) :
                            /\ feature_columns[j] \notin columns
                            /\ \A k \in (j + 1)..Len(feature_columns) :
                                  feature_columns[k] \in columns]

\* the first name of feature_columns that is no column of the table, "" if
\* there is none (the loop of lines 37-38 stops at the first failing assert)
MissingColumn(feature_columns, columns) ==
    IF \A j \in 1..Len(feature_columns) : feature_columns[j] \in columns THEN ""
    ELSE feature_columns[CHOOSE j \in 1..Len(feature_columns) :
                            /\ feature_columns[j] \notin columns
                            /\ \A k \in 1..(j - 1) : feature_columns[k] \in columns]

\* lines 27-32 with a ticker that is neither a str nor a DataFrame
RaiseTypeError ==
    /\ pc = "start"
    /\ ticker \notin {"str", "DataFrame"}
    /\ Raise("TypeError", 32, "")
    /\ UNCHANGED <<ticker, df, original, cfg, result, last_sequence, sequences,
                   sequence_data, X, y, rng, calls>>

\* the table df names after lines 27-30: the data source's for a symbol, the
\* caller's own object for a table
Resolved == IF ticker = "str" THEN original ELSE df

\* lines 27-38 with a feature column missing
RaiseMissingColumn ==
    /\ pc = "start"
    /\ ticker \in {"str", "DataFrame"}
    /\ MissingColumn(cfg.feature_columns, Resolved.columns) # ""
    /\ df' = Resolved
    /\ result' = ("df" :> Resolved)
    /\ Raise("AssertionError", 38, MissingColumn(cfg.feature_columns, Resolved.columns))
    /\ UNCHANGED <<ticker, original, cfg, last_sequence, sequences, sequence_data,
                   X, y, rng, calls>>

\* lines 27-38: the table is resolved, copied into the result and checked
Validate ==
    /\ pc = "start"
    /\ ticker \in {"str", "DataFrame"}
    /\ MissingColumn(cfg.feature_columns, Resolved.columns) = ""
    /\ df' = Resolved
    /\ result' = ("df" :> Resolved)
    /\ pc' = "prepare"
    /\ UNCHANGED <<ticker, original, cfg, error, last_sequence, sequences,
                   sequence_data, X, y, rng, calls>>

\* lines 40-41
WithDate(table) ==
    IF "date" \in table.columns THEN table
    ELSE SetColumn(table, "date",
                   [i \in 1..Len(table.rows) |-> Timestamp(table.rows[i].index)])

\* lines 43-49
Scaled(table, config) ==
    IF config.scale
    THEN ScaleColumns(table, config.feature_columns, Len(config.feature_columns))
    ELSE [df |-> table, column_scaler |-> <<>>]

\* line 51
WithFuture(table, lookup_step) ==
    SetColumn(table, "future", Shift(Column(table, "adjclose"), lookup_step))

\* tail(n_steps) instead of tail(lookup_step)
StepsTail(config) == config.n_steps

\* line 52: how many of the last rows are captured
TailLength(config) == config.lookup_step

\* dropna(subset=['future']): only the rows without a future value go
DropNoFuture(table) ==
    [columns |-> table.columns,
     rows    |-> SelectRows(table.rows,
                            {i \in 1..Len(table.rows) :
                                ~IsNaN(table.rows[i].cells["future"])},
                            1, Len(table.rows))]

\* line 53
AfterDropNa(table) == DropNa(table)

\* lines 51-53 on the table with its future column
Shifted(fut) ==
    /\ last_sequence' = TailOf(FeatureRows(fut, cfg.feature_columns), TailLength(cfg))
    /\ df' = AfterDropNa(fut)

\* lines 49-53 after the scaling
Prepared(sc) ==
    /\ result' = IF cfg.scale
                 THEN ("column_scaler" :> sc.column_scaler) @@ result
                 ELSE result
    /\ Shifted(WithFuture(sc.df, cfg.lookup_step))

\* lines 40-49 on an empty table: MinMaxScaler refuses an array without rows
RaiseEmptyScale ==
    /\ pc = "prepare"
    /\ cfg.scale /\ Len(df.rows) = 0 /\ Len(cfg.feature_columns) > 0
    /\ df' = WithDate(df)
    /\ Raise("ValueError", 47, cfg.feature_columns[1])
    /\ UNCHANGED <<ticker, original, cfg, result, last_sequence, sequences,
                   sequence_data, X, y, rng, calls>>

\* lines 40-53: the date column, the scaling, the future column, the tail
\* rows and the dropping of rows with missing values, all on df itself
Prepare ==
    /\ pc = "prepare"
    /\ ~(cfg.scale /\ Len(df.rows) = 0 /\ Len(cfg.feature_columns) > 0)
    /\ Prepared(Scaled(WithDate(df), cfg))
    /\ pc' = "window"
    /\ UNCHANGED <<ticker, original, cfg, error, sequences, sequence_data, X, y,
                   rng, calls>>

\* lines 63-73 after the loop
Windowed(loop) ==
    /\ sequences' = loop.sequences
    /\ sequence_data' = loop.sequence_data
    /\ last_sequence' = LastSequence(loop.sequences, last_sequence, cfg.feature_columns)
    /\ X' = [i \in 1..Len(loop.sequence_data) |-> loop.sequence_data[i][1]]
    /\ y' = [i \in 1..Len(loop.sequence_data) |-> loop.sequence_data[i][2]]

\* lines 55-73
Window ==
    /\ pc = "window"
    /\ Windowed(WindowLoop([sequences |-> <<>>, sequence_data |-> <<>>],
                           [i \in 1..Len(df.rows) |->
                               Entry(df.rows[i], cfg.feature_columns)],
                           Column(df, "future"), cfg.n_steps, 1, Len(df.rows)))
    /\ result' = ("last_sequence" :> last_sequence') @@ result
    /\ pc' = "split"
    /\ UNCHANGED <<ticker, df, original, cfg, error, rng, calls>>

\* the four parts go into the result; the generator keeps the state reached
Store(sp) ==
    /\ result' = ("X_train" :> sp.X_train) @@ ("y_train" :> sp.y_train)
                 @@ ("X_test" :> sp.X_test) @@ ("y_test" :> sp.y_test) @@ result
    /\ rng' = sp.state

\* the parts of lines 77-80 are views of X and y: shuffling them in place
\* (lines 82-83) rearranges X and y themselves
StoreViews(sp) ==
    /\ Store(sp)
    /\ X' = sp.X_train \o sp.X_test
    /\ y' = sp.y_train \o sp.y_test

\* the parts train_test_split returns are copies
StoreUnlessRaised(sp) == ~sp.raised /\ Store(sp)

\* lines 75-83
DateSplit ==
    /\ pc = "split"
    /\ cfg.split_by_date
    /\ StoreViews(SplitByDate(X, y, cfg.test_size, cfg.shuffle, rng))
    /\ pc' = "finish"
    /\ UNCHANGED <<ticker, df, original, cfg, error, last_sequence, sequences,
                   sequence_data, calls>>

\* lines 84-86
RandomSplit ==
    /\ pc = "split"
    /\ ~cfg.split_by_date
    /\ StoreUnlessRaised(TrainTestSplit(X, y, cfg.test_size, cfg.shuffle, rng))
    /\ pc' = "finish"
    /\ UNCHANGED <<ticker, df, original, cfg, error, last_sequence, sequences,
                   sequence_data, X, y, calls>>

\* lines 84-86 when train_test_split refuses an empty train set
RaiseEmptyTrain ==
    /\ pc = "split"
    /\ ~cfg.split_by_date
    /\ TrainTestSplit(X, y, cfg.test_size, cfg.shuffle, rng).raised
    /\ Raise("ValueError", 85, "")
    /\ UNCHANGED <<ticker, df, original, cfg, result, last_sequence, sequences,
                   sequence_data, X, y, rng, calls>>

\* whether np.array(X) at line 72 has the three axes line 88 indexes: an
\* empty list gives an array of shape (0,)
ThreeAxes(x) == Len(x) > 0

\* line 88 on an array without windows
RaiseIndexError ==
    /\ pc = "finish"
    /\ ~ThreeAxes(X)
    /\ Raise("IndexError", 88, "")
    /\ UNCHANGED <<ticker, df, original, cfg, result, last_sequence, sequences,
                   sequence_data, X, y, rng, calls>>

\* lines 88-94
Finish ==
    /\ pc = "finish"
    /\ ThreeAxes(X)
    /\ result' = [k \in DOMAIN result \cup {"test_df"} |->
                    IF k = "test_df" THEN TestDf(result["df"], result["X_test"])
                    ELSE IF k \in {"X_train", "X_test"}
                    THEN Truncate(result[k], Len(cfg.feature_columns))
                    ELSE result[k]]
    /\ pc' = "returned"
    /\ UNCHANGED <<ticker, df, original, cfg, error, last_sequence, sequences,
                   sequence_data, X, y, rng, calls>>

\* the caller calls load_data again with the same arguments: the same table
\* object, as the previous call left it, or the same symbol
CallAgain ==
    /\ pc \in {"returned", "raised"}
    /\ calls < MaxCalls
    /\ calls' = calls + 1
    /\ pc' = "start"
    /\ error' = NoError
    /\ result' = <<>>
    /\ last_sequence' = <<>>
    /\ sequences' = <<>>
    /\ sequence_data' = <<>>
    /\ X' = <<>>
    /\ y' = <<>>
    /\ UNCHANGED <<ticker, df, original, cfg, rng>>

Next ==
    \/ RaiseTypeError
    \/ RaiseMissingColumn
    \/ Validate
    \/ RaiseEmptyScale
    \/ Prepare
    \/ Window
    \/ DateSplit
    \/ RandomSplit
    \/ RaiseEmptyTrain
    \/ RaiseIndexError
    \/ Finish
    \/ CallAgain

Spec == Init /\ [][Next]_vars

(***************************************************************************)
(* The properties.                                                         *)
(***************************************************************************)
\* the window loop of the running call is done
LoopDone ==
    \/ pc \in {"split", "finish", "returned"}
    \/ pc = "raised" /\ error.line \in {85, 88}

\* the call has ended after the window loop
EndedAfterLoop ==
    \/ pc = "returned"
    \/ pc = "raised" /\ error.line \in {85, 88}

\* the table of the running call as it stands at line 52, before any row is
\* dropped, rebuilt from the copy the call kept at line 35
BeforeDrop == WithFuture(Scaled(WithDate(result["df"]), cfg).df, cfg.lookup_step)

\* the position in a table of the row labelled label
PositionOf(table, label) ==
    CHOOSE p \in 1..Len(table.rows) : table.rows[p].index = label

\* the labels of a table's rows
Labels(table) == {table.rows[i].index : i \in 1..Len(table.rows)}

\* whether the pair (x, t) is one the loop emitted; the returned X_train and
\* X_test are cut to the feature columns
Emitted(x, t) ==
    \E k \in 1..Len(sequence_data) :
        /\ t = sequence_data[k][2]
        /\ x = IF pc = "returned"
               THEN Truncate(<<sequence_data[k][1]>>, Len(cfg.feature_columns))[1]
               ELSE sequence_data[k][1]

\* C1 (as stated): with at least n_steps usable rows the call emits
\* usable - n_steps + 1 pairs and ends with every pair in train or in test,
\* len(X_train) + len(X_test) = len(y_train) + len(y_test) = that number,
\* under either split policy
C1_EveryPairInTrainOrTest ==
    (EndedAfterLoop /\ Len(df.rows) >= cfg.n_steps) =>
        /\ Len(sequence_data) = Len(df.rows) - cfg.n_steps + 1
        /\ pc = "returned"
        /\ Len(result["X_train"]) + Len(result["X_test"]) = Len(sequence_data)
        /\ Len(result["y_train"]) + Len(result["y_test"]) = Len(sequence_data)

\* C1, what holds instead: the number of pairs is as stated, and the sizes
\* add up whenever the call returns; the call does not return when
\* train_test_split is left with an empty train set
C1_SizesAddUpWhenReturned ==
    /\ (LoopDone /\ Len(df.rows) >= cfg.n_steps) =>
           Len(sequence_data) = Len(df.rows) - cfg.n_steps + 1
    /\ (LoopDone /\ Len(df.rows) < cfg.n_steps) => Len(sequence_data) = 0
    /\ pc \in {"finish", "returned"} =>
           /\ Len(result["X_train"]) + Len(result["X_test"]) = Len(sequence_data)
           /\ Len(result["y_train"]) + Len(result["y_test"]) = Len(sequence_data)
           /\ Len(result["X_train"]) = Len(result["y_train"])

\* C2: each emitted pair is aligned on its window's last row: the window is
\* the n_steps consecutive retained rows ending at retained row i, in table
\* order, and the target is the adjclose value lookup_step rows after that
\* row in the (scaled) table as it was before rows were dropped
C2_TargetAlignedOnLastRow ==
    pc \in {"split", "finish", "returned"} =>
        LET pre == BeforeDrop
            at == [i \in 1..Len(df.rows) |-> PositionOf(pre, df.rows[i].index)]
        IN  \A k \in 1..Len(sequence_data) :
                LET i == k + cfg.n_steps - 1
                IN  /\ i <= Len(df.rows)
                    /\ sequence_data[k][1] =
                           [r \in 1..cfg.n_steps |->
                               Entry(df.rows[k + r - 1], cfg.feature_columns)]
                    /\ \A r \in 1..(cfg.n_steps - 1) : at[k + r - 1] < at[k + r]
                    /\ at[i] + cfg.lookup_step <= Len(pre.rows)
                    /\ sequence_data[k][2] =
                           pre.rows[at[i] + cfg.lookup_step].cells["adjclose"]

C2_Witness ==
    /\ pc = "returned"
    /\ cfg.n_steps = 2 /\ cfg.lookup_step = 2 /\ cfg.scale
    /\ Len(sequence_data) >= 2
    /\ sequence_data[1][2] # sequence_data[2][2]

C4_CallersTableUnchanged == ticker = "DataFrame" => df = original

\* C5: with split_by_date and shuffle, position i of X_train and of y_train
\* (of X_test and of y_test) hold the window and the target of one emitted
\* pair: shuffle_in_unison applies one permutation to both arrays
C5_CoShufflePreservesPairing ==
    (pc \in {"finish", "returned"} /\ cfg.split_by_date /\ cfg.shuffle) =>
        /\ Len(result["X_train"]) = Len(result["y_train"])
        /\ Len(result["X_test"]) = Len(result["y_test"])
        /\ \A i \in 1..Len(result["X_train"]) :
               Emitted(result["X_train"][i], result["y_train"][i])
        /\ \A i \in 1..Len(result["X_test"]) :
               Emitted(result["X_test"][i], result["y_test"][i])

C5_Witness ==
    /\ pc = "finish" /\ cfg.split_by_date /\ cfg.shuffle
    /\ Len(result["X_train"]) >= 2
    /\ result["X_train"][1] # sequence_data[1][1]
    /\ Len(result["X_test"]) >= 2
    /\ result["X_test"] # SubSeq([k \in 1..Len(sequence_data) |-> sequence_data[k][1]],
                                 Len(result["X_train"]) + 1, Len(sequence_data))

\* whether the labels (the dates) of a table strictly increase
Ascending(table) ==
    \A i \in 1..(Len(table.rows) - 1) : table.rows[i].index < table.rows[i + 1].index

\* C6: with split_by_date on a table whose dates strictly increase, every
\* anchor date of a train window is before every anchor date of a test
\* window, shuffled or not; in the returned result the test rows recovered
\* (test_df) are the test windows' dates, all after the train windows'
C6_TrainDatesBeforeTestDates ==
    /\ (pc = "finish" /\ cfg.split_by_date /\ Ascending(result["df"])) =>
           \A i \in 1..Len(result["X_train"]), j \in 1..Len(result["X_test"]) :
               AnchorDates(result["X_train"])[i].num
                   < AnchorDates(result["X_test"])[j].num
    /\ (pc = "returned" /\ cfg.split_by_date /\ Ascending(result["df"])) =>
           /\ Len(result["test_df"].rows) = Len(result["X_test"])
           /\ \A i \in 1..Len(result["X_train"]) :
                  \A d \in Labels(result["test_df"]) : AnchorDates(X)[i].num < d

C6_Witness ==
    /\ pc = "finish" /\ cfg.split_by_date /\ cfg.shuffle
    /\ Ascending(result["df"])
    /\ Len(result["X_train"]) >= 2 /\ Len(result["X_test"]) >= 2
    /\ AnchorDates(result["X_train"])[1].num > AnchorDates(result["X_train"])[2].num

\* C7: when a name of feature_columns is no column of the table, the call
\* ends at once with the assertion error naming the first such name in
\* feature_columns order, returns nothing and leaves the table as it was
C7_MissingColumnFailsFirst ==
    (/\ ticker \in {"str", "DataFrame"}
     /\ pc # "start"
     /\ \E j \in 1..Len(cfg.feature_columns) :
            cfg.feature_columns[j] \notin original.columns) =>
        /\ pc = "raised"
        /\ error.type = "AssertionError" /\ error.line = 38
        /\ \E j \in 1..Len(cfg.feature_columns) :
               /\ error.arg = cfg.feature_columns[j]
               /\ cfg.feature_columns[j] \notin original.columns
               /\ \A k \in 1..(j - 1) : cfg.feature_columns[k] \in original.columns
        /\ df = original
        /\ DOMAIN result \cap {"X_train", "y_train", "X_test", "y_test", "test_df",
                               "last_sequence", "column_scaler"} = {}

C7_Witness ==
    /\ pc = "raised" /\ error.type = "AssertionError"
    /\ cfg.feature_columns = <<"open", "adjclose", "high">>
    /\ error.arg = "open"
    /\ Len(df.rows) = 3 /\ calls = 2

\* floor(((q - p) / q) * n) for the test size p/q
FloorOfTrainFraction(test_size, n) ==
    ((test_size[2] - test_size[1]) * n) \div test_size[2]

\* C8 (as stated): with split_by_date, train is the first
\* floor((1 - test_size) * N) of the N pairs in emission order and test the
\* rest (in some order when shuffled); the 100-row table with n_steps = 5,
\* lookup_step = 1 and test_size = 0.2 has 99 usable rows, 95 pairs, 76 in
\* train and 19 in test
C8_TrainIsFloorOfFraction ==
    (pc = "finish" /\ cfg.split_by_date) =>
        LET N == Len(sequence_data)
            t == FloorOfTrainFraction(cfg.test_size, N)
        IN  /\ Len(result["X_train"]) = t
            /\ Len(result["X_test"]) = N - t
            /\ {<<result["X_train"][i], result["y_train"][i]>> : i \in 1..t}
                   = {sequence_data[k] : k \in 1..t}
            /\ {<<result["X_test"][i], result["y_test"][i]>> : i \in 1..(N - t)}
                   = {sequence_data[k] : k \in (t + 1)..N}
            /\ ~cfg.shuffle =>
                   /\ result["X_train"] = [k \in 1..t |-> sequence_data[k][1]]
                   /\ result["X_test"] = [k \in 1..(N - t) |-> sequence_data[t + k][1]]
            /\ (Len(result["df"].rows) = 100 /\ cfg.n_steps = 5
                    /\ cfg.lookup_step = 1 /\ cfg.test_size = <<2, 10>>) =>
                   Len(df.rows) = 99 /\ N = 95 /\ t = 76 /\ N - t = 19

\* C8, what holds instead: the same with the number of train pairs computed
\* as line 76 computes it, in double precision
C8_TrainIsIntOfDoubleProduct ==
    (pc = "finish" /\ cfg.split_by_date) =>
        LET N == Len(sequence_data)
            t == TrainSamples(cfg.test_size, N)
        IN  /\ Len(result["X_train"]) = t
            /\ Len(result["X_test"]) = N - t
            /\ {<<result["X_train"][i], result["y_train"][i]>> : i \in 1..t}
                   = {sequence_data[k] : k \in 1..t}
            /\ {<<result["X_test"][i], result["y_test"][i]>> : i \in 1..(N - t)}
                   = {sequence_data[k] : k \in (t + 1)..N}
            /\ cfg.test_size \in {<<2, 10>>, <<5, 10>>} =>
                   t = FloorOfTrainFraction(cfg.test_size, N)
            /\ (Len(result["df"].rows) = 100 /\ cfg.n_steps = 5
                    /\ cfg.lookup_step = 1 /\ cfg.test_size = <<2, 10>>) =>
                   Len(df.rows) = 99 /\ N = 95 /\ t = 76 /\ N - t = 19

\* C9 (as stated): with fewer usable rows than n_steps the call returns, and
\* its train and test sets are empty, under either split policy
C9_UndersizedReturnsEmpty ==
    (/\ pc = "returned" \/ (pc = "raised" /\ error.line \in {47, 85, 88})
     /\ Len(df.rows) < cfg.n_steps) =>
        /\ pc = "returned"
        /\ Len(result["X_train"]) = 0 /\ Len(result["X_test"]) = 0
        /\ Len(result["y_train"]) = 0 /\ Len(result["y_test"]) = 0

\* whether a row has a value in every column
Complete(table, p) == \A c \in table.columns : ~IsNaN(table.rows[p].cells[c])

\* C10 (as stated): a row is dropped exactly when it has no future value,
\* whatever its other columns hold
C10_DroppedIffNoFuture ==
    LoopDone =>
        LET pre == BeforeDrop
        IN  \A p \in 1..Len(pre.rows) :
                pre.rows[p].index \in Labels(df)
                    <=> ~IsNaN(pre.rows[p].cells["future"])

\* C10 (amended): a row is dropped exactly when it has a missing value in
\* some column, the future value included; the rows kept are unchanged and
\* in table order; a table free of missing values loses exactly its last
\* lookup_step rows
C10_DroppedIffAnyValueMissing ==
    LoopDone =>
        LET pre == BeforeDrop
            at == [i \in 1..Len(df.rows) |-> PositionOf(pre, df.rows[i].index)]
        IN  /\ \A p \in 1..Len(pre.rows) :
                   pre.rows[p].index \in Labels(df) <=> Complete(pre, p)
            /\ \A i \in 1..Len(df.rows) : df.rows[i] = pre.rows[at[i]]
            /\ \A i \in 1..(Len(df.rows) - 1) : at[i] < at[i + 1]
            /\ (\A p \in 1..Len(result["df"].rows) : Complete(result["df"], p)) =>
                   df.rows = SubSeq(pre.rows, 1, Len(pre.rows) - cfg.lookup_step)

C10_Witness ==
    /\ pc = "returned"
    /\ \E p \in 1..(Len(result["df"].rows) - cfg.lookup_step) :
           /\ IsNaN(result["df"].rows[p].cells["volume"])
           /\ ~IsNaN(result["df"].rows[p + cfg.lookup_step].cells["adjclose"])
           /\ result["df"].rows[p].index \notin Labels(df)

====
